---- MODULE Spec2Model ----
(***************************************************************************)
(* Joybus (N64/GameCube) protocol decoder, joybus/pd.py.                   *)
(*                                                                         *)
(* The decoder is a single thread that runs decode() over a sampled        *)
(* one-bit line.  It suspends only inside self.wait(); each action below   *)
(* is one wait() call together with all the code that runs from its return *)
(* up to the next wait() call.  The sampled line is the input: it is given *)
(* run-length encoded (alternating low and high runs) by a capture record  *)
(* chosen in Init, and wait() is modelled over it as libsigrokdecode       *)
(* defines it (edge / level / skip terms, the sample after the last match  *)
(* is the first one examined).                                             *)
(***************************************************************************)
EXTENDS Integers, Sequences, FiniteSets, TLC

VARIABLES
    samplerate,                 \* self.samplerate (Unset until metadata())
    idle_min_samples,           \* self.idle_min_samples
    bit_midpoint_samples,       \* self.bit_midpoint_samples
    bit_command_samples,        \* self.bit_command_samples
    bit_response_samples,       \* self.bit_response_samples
    bit_timeout_samples,        \* self.bit_timeout_samples
    response_timeout_samples,   \* self.response_timeout_samples
    state,                      \* self.state
    samplenum,                  \* self.samplenum
    out_ann,                    \* the annotations put() so far, in order
    pc,                         \* the wait() call decode() is suspended in
    loc,                        \* local variables of decode/read_byte/read_bit
    raised,                     \* the exception that left decode(), "" if none
    cap,                        \* the capture being decoded (input, constant)
    run,                        \* index of the run that holds sample samplenum
    rem,                        \* samples from samplenum to the next edge
    matched                     \* a previous wait() has matched

timing == <<idle_min_samples, bit_midpoint_samples, bit_command_samples,
            bit_response_samples, bit_timeout_samples, response_timeout_samples>>

line == <<cap, run, rem, matched>>

vars == <<samplerate, timing, state, samplenum, out_ann, pc, loc, raised, line>>

-----------------------------------------------------------------------------
(* Bounds of the checked input space.                                      *)

MaxFaultPos == 36       \* a fault may replace any of the first runs of frame 1
MaxFill == 63           \* payload seeds 0..MaxFill (payload bytes step by 64)
MaxCut == 24            \* truncated captures end after 3..MaxCut runs

-----------------------------------------------------------------------------
(* Program constants.                                                      *)

Unset == -1                     \* an attribute that was never assigned

SRD_CONF_SAMPLERATE == 10000    \* sigrokdecode.SRD_CONF_SAMPLERATE
OtherKey == 10001               \* any other metadata key

AnnCommand == 0
AnnCommandData == 1
AnnResponseData == 2
AnnBit == 3
AnnStopBit == 4
AnnError == 5

Cmd(n, cl, rl) == [name |-> n, command_len |-> cl, response_len |-> rl]

JOYBUS_COMMANDS ==
    (0 :> Cmd("Info", 1, 3)) @@
    (1 :> Cmd("Controller State", 1, 4)) @@
    (2 :> Cmd("Read Accessory", 3, 33)) @@
    (3 :> Cmd("Write Accessory", 35, 1)) @@
    (4 :> Cmd("Read EEPROM", 2, 8)) @@
    (5 :> Cmd("Write EEPROM", 10, 1)) @@
    (20 :> Cmd("Read GBA", 3, 33)) @@
    (21 :> Cmd("Write GBA", 35, 1)) @@
    (64 :> Cmd("Short Poll", 3, 8)) @@
    (65 :> Cmd("Read Origin", 1, 10)) @@
    (66 :> Cmd("Calibrate", 3, 10)) @@
    (67 :> Cmd("Long Poll", 3, 10)) @@
    (78 :> Cmd("Fix Device", 3, 3)) @@
    (84 :> Cmd("Keyboard Poll", 3, 8)) @@
    (255 :> Cmd("Reset", 1, 3))

Opcodes == DOMAIN JOYBUS_COMMANDS

-----------------------------------------------------------------------------
(* metadata(): sample counts derived from the sample rate.                 *)

\* Variant: the microseconds are truncated to a whole number first.
us_to_samplesWholeUs(rate, us10) == (rate \div 1000000) * (us10 \div 10)

\* math.floor(samplerate / 1000000 * us), us given in tenths of a microsecond.
\* The product is split so that it stays within TLC's integers; the value is
\* the exact floor, which is what the float expression yields for the rates
\* used here (whole MHz).
us_to_samples(rate, us10) ==
    LET q == rate \div 1000000
        r == rate % 1000000
    IN  (q * us10 + (r * us10) \div 1000000) \div 10

IdleUs10 == 1000
MidpointUs10 == 25
CommandBitUs10 == 50
ResponseBitUs10 == 40
BitTimeoutUs10 == 100
ResponseTimeoutUs10 == 500

-----------------------------------------------------------------------------
(* Annotation texts.                                                       *)

HexDigit == <<"0", "1", "2", "3", "4", "5", "6", "7",
              "8", "9", "A", "B", "C", "D", "E", "F">>

\* f"0x{v:02X}"
Hex2(v) == "0x" \o HexDigit[(v \div 16) + 1] \o HexDigit[(v % 16) + 1]

Ann(k, ss, es, text) == [kind |-> k, ss |-> ss, es |-> es, val |-> text]

\* Variant: an opcode outside the table is not named by its hex value.
put_commandNoHex(ss, es, command) ==
    Ann(AnnCommand, ss, es,
        "Command: " \o (IF command \in Opcodes THEN JOYBUS_COMMANDS[command].name
                        ELSE "Unknown"))

put_command(ss, es, command) ==
    LET command_name == IF command \in Opcodes
                        THEN JOYBUS_COMMANDS[command].name
                        ELSE Hex2(command)
    IN  Ann(AnnCommand, ss, es, "Command: " \o command_name)

put_command_data(ss, es, data) == Ann(AnnCommandData, ss, es, "Data: " \o Hex2(data))

put_response_data(ss, es, data) == Ann(AnnResponseData, ss, es, "Data: " \o Hex2(data))

put_bit(ss, es, bit) == Ann(AnnBit, ss, es, IF bit = 0 THEN "0" ELSE "1")

put_stop_bit(ss, es) == Ann(AnnStopBit, ss, es, "Stop")

put_error(ss, es, msg) == Ann(AnnError, ss, es, msg)

-----------------------------------------------------------------------------
(* The capture: the sampled SI line, run-length encoded.                   *)
(*                                                                         *)
(* Run 0 is low (the capture may begin in the middle of traffic; with      *)
(* pre = 0 the line is high at sample 0 and run 0 is empty), run 1 is the  *)
(* high lead-in, then come the runs of frame 1 (two per bit, low then      *)
(* high; one low run per stop bit; one high run between command and        *)
(* response), the high gap between the frames, the runs of frame 2 (a      *)
(* well-formed Info exchange) and a high tail.  Even runs are low, odd     *)
(* runs high.  One run of frame 1 can be replaced by a run of another      *)
(* length (fpos, flen), and the capture can end early (cut).               *)

TxTiming(rate) ==
    [idle_min         |-> us_to_samples(rate, IdleUs10),
     bit_midpoint     |-> us_to_samples(rate, MidpointUs10),
     bit_period       |-> us_to_samples(rate, CommandBitUs10),
     bit_timeout      |-> us_to_samples(rate, BitTimeoutUs10),
     response_timeout |-> us_to_samples(rate, ResponseTimeoutUs10)]

\* Low-pulse length that encodes bit b (0: longer than the midpoint).
TxLow(c, b) ==
    LET t == TxTiming(c.rate)
    IN  CASE c.var = "nominal" ->
               IF b = 0 THEN (3 * t.bit_period) \div 4 ELSE t.bit_period \div 4
          [] c.var = "edge" ->
               IF b = 0 THEN t.bit_midpoint + 1 ELSE t.bit_midpoint
          [] OTHER ->
               IF b = 0 THEN t.bit_timeout ELSE t.bit_midpoint - 1

\* High-pulse length that follows the low pulse of bit b.
TxHigh(c, b) ==
    LET t == TxTiming(c.rate)
    IN  CASE c.var = "nominal" -> t.bit_period - TxLow(c, b)
          [] c.var = "edge" -> t.bit_midpoint
          [] OTHER -> t.bit_timeout

\* Low-pulse length of a stop bit.
TxStopLow(c) ==
    LET t == TxTiming(c.rate)
    IN  CASE c.var = "nominal" -> t.bit_period \div 4
          [] c.var = "edge" -> t.bit_midpoint
          [] OTHER -> t.bit_timeout + 1

\* High time between the command's stop bit and the response.
TxResponseGap(c) ==
    LET t == TxTiming(c.rate)
    IN  CASE c.var = "nominal" -> t.bit_period
          [] c.var = "edge" -> 1
          [] OTHER -> t.response_timeout

\* Lengths (command bytes, response bytes) the transmitter uses for an opcode.
TxCommandLen(op) == IF op \in Opcodes THEN JOYBUS_COMMANDS[op].command_len ELSE 1
TxResponseLen(op) == IF op \in Opcodes THEN JOYBUS_COMMANDS[op].response_len ELSE 3

FrameRuns(op) == 16 * (TxCommandLen(op) + TxResponseLen(op)) + 3

\* Byte j (0 is the opcode) of a frame with opcode op.
TxByte(c, op, j) == IF j = 0 THEN op ELSE (c.fill + 64 * j) % 256

\* Bit i of byte v, most significant bit first.
TxBit(v, i) == (v \div (2 ^ (7 - i))) % 2

\* Length of run j of a frame with opcode op.
FrameRunLen(c, op, j) ==
    LET cl == TxCommandLen(op)
        rl == TxResponseLen(op)
        jj == IF j < 16 * cl THEN j ELSE j - 2
        b  == TxBit(TxByte(c, op, jj \div 16), (jj \div 2) % 8)
    IN  IF j = 16 * cl \/ j = 16 * (cl + rl) + 2 THEN TxStopLow(c)
        ELSE IF j = 16 * cl + 1 THEN TxResponseGap(c)
        ELSE IF j % 2 = 0 THEN TxLow(c, b) ELSE TxHigh(c, b)

Frame2Op == 0

FullRuns(c) == 4 + FrameRuns(c.op) + FrameRuns(Frame2Op)

NumRuns(c) == IF c.cut > 0 THEN c.cut ELSE FullRuns(c)

RunLen(c, k) ==
    LET f1 == FrameRuns(c.op)
    IN  IF k = 0 THEN c.pre
        ELSE IF k = 1 THEN c.lead
        ELSE IF k < 2 + f1 THEN
            IF k - 2 = c.fpos THEN c.flen ELSE FrameRunLen(c, c.op, k - 2)
        ELSE IF k = 2 + f1 THEN c.gap
        ELSE IF k < FullRuns(c) - 1 THEN FrameRunLen(c, Frame2Op, k - 3 - f1)
        ELSE TxTiming(c.rate).idle_min + 2

Level(k) == k % 2

LastRun == NumRuns(cap) - 1

-----------------------------------------------------------------------------
(* self.wait(): the result of a call made at the current position.         *)
(* A result is [eof, sn, run, rem, si]: whether the samples ran out before *)
(* a term matched, and otherwise the matching sample number, the run it    *)
(* lies in, the samples from it to the next edge, and the pin value there. *)

Eof == [eof |-> TRUE, sn |-> samplenum, run |-> run, rem |-> rem, si |-> Level(run)]

Match(sn, k, r) == [eof |-> FALSE, sn |-> sn, run |-> k, rem |-> r, si |-> Level(k)]

\* A skip term of n samples matches n samples after the previous match (a
\* skip of 0 at the first sample examined).
SkipAt(n) == IF n = 0 THEN 1 ELSE n

\* wait({0: "r"}) or wait({0: "f"}) with the line at the opposite level.
WaitEdge ==
    IF run = LastRun THEN Eof
    ELSE Match(samplenum + rem, run + 1, RunLen(cap, run + 1))

\* wait([{0: edge}, {"skip": n}]) with the line at the opposite level.
WaitEdgeOrSkip(n) ==
    IF run < LastRun /\ rem <= SkipAt(n) THEN WaitEdge
    ELSE IF rem > SkipAt(n) THEN Match(samplenum + SkipAt(n), run, rem - SkipAt(n))
    ELSE Eof

\* wait({0: "h"}): the first sample examined that is high.  The very first
\* wait() examines sample 0 itself, later ones start after the last match.
WaitHigh ==
    IF ~matched /\ Level(run) = 1 THEN Match(samplenum, run, rem)
    ELSE IF Level(run) = 0 THEN WaitEdge
    ELSE IF rem > 1 THEN Match(samplenum + 1, run, rem - 1)
    ELSE IF run + 2 > LastRun THEN Eof
    ELSE Match(samplenum + rem + RunLen(cap, run + 1), run + 2, RunLen(cap, run + 2))

-----------------------------------------------------------------------------
(* The code that runs between two wait() calls of the COMMAND branch.      *)
(* Each operator yields [out_ann, state, pc, loc]: the annotations put so  *)
(* far, self.state, the wait() call reached next and the local variables.  *)

Reached(log, st, p, l) == [out_ann |-> log, state |-> st, pc |-> p, loc |-> l]

\* Variant: a failed frame falls back to IDLE, without the idle debounce.
CatchToIdle(log, l, sn, msg) ==
    Reached(Append(log, put_error(l.command_start, sn, msg)), "IDLE", "idle_f", l)

\* Variant: the error annotation starts at the byte that failed.
CatchFromByteStart(log, l, sn, msg) ==
    Reached(Append(log, put_error(l.byte_start, sn, msg)), "INITIAL", "initial_h", l)

\* except Exception as e: put the error annotation, go back to INITIAL.
Catch(log, l, sn, msg) ==
    Reached(Append(log, put_error(l.command_start, sn, msg)), "INITIAL", "initial_h", l)

\* read_bit() up to its first wait().
StartBit(log, l, sn) ==
    Reached(log, "COMMAND", "bit_r", [l EXCEPT !.bit_start = sn])

\* read_byte() up to the first wait() of its first read_bit().
StartByte(log, l, sn) ==
    StartBit(log, [l EXCEPT !.byte_start = sn, !.byte_value = 0, !.nbits = 0], sn)

\* Variant: the nominal width is dropped, the annotation has no extent.
StartStopNoWidth(log, l, sn, width) ==
    Reached(log, "COMMAND", "stop_r", [l EXCEPT !.stop_start = sn, !.width = 0])

\* read_stop_bit(width) up to its wait().
StartStop(log, l, sn, width) ==
    Reached(log, "COMMAND", "stop_r", [l EXCEPT !.stop_start = sn, !.width = width])

\* Variant: the loop does not account for the opcode byte
\* (for _ in range(command_len)).
CommandDataLoopOffByOne(log, l, sn, i) ==
    IF i <= JOYBUS_COMMANDS[l.command].command_len
    THEN StartByte(log, [l EXCEPT !.seg = "command_data", !.nbytes = i], sn)
    ELSE StartStop(log, [l EXCEPT !.seg = "command"], sn, bit_command_samples)

\* The loop over the command data bytes, about to run iteration i
\* (for _ in range(1, command_len)), then the command's stop bit.
CommandDataLoop(log, l, sn, i) ==
    IF i < JOYBUS_COMMANDS[l.command].command_len
    THEN StartByte(log, [l EXCEPT !.seg = "command_data", !.nbytes = i], sn)
    ELSE StartStop(log, [l EXCEPT !.seg = "command"], sn, bit_command_samples)

\* Variant: one response byte too many (for _ in range(response_len + 1)).
ResponseLoopOffByOne(log, l, sn, i) ==
    IF i <= JOYBUS_COMMANDS[l.command].response_len
    THEN StartByte(log, [l EXCEPT !.seg = "response", !.nbytes = i], sn)
    ELSE StartStop(log, [l EXCEPT !.seg = "response"], sn, bit_response_samples)

\* Variant: the frame ends at the last response byte, its stop bit is left
\* on the line.
ResponseLoopNoStop(log, l, sn, i) ==
    IF i < JOYBUS_COMMANDS[l.command].response_len
    THEN StartByte(log, [l EXCEPT !.seg = "response", !.nbytes = i], sn)
    ELSE Reached(log, "IDLE", "idle_f", l)

\* The loop over the response bytes, about to run iteration i
\* (for _ in range(response_len)), then the response's stop bit.
ResponseLoop(log, l, sn, i) ==
    IF i < JOYBUS_COMMANDS[l.command].response_len
    THEN StartByte(log, [l EXCEPT !.seg = "response", !.nbytes = i], sn)
    ELSE StartStop(log, [l EXCEPT !.seg = "response"], sn, bit_response_samples)

\* Variant: a data byte is annotated from the start of the frame.
ByteDoneFromFrameStart(log, l, sn) ==
    IF l.seg = "opcode" THEN
        LET l1 == [l EXCEPT !.command_start = l.byte_start, !.command = l.byte_value]
            log1 == Append(log, put_command(l1.command_start, sn, l1.command))
        IN  IF l1.command \notin Opcodes
            THEN Catch(log1, l1, sn, "Unknown command")
            ELSE CommandDataLoop(log1, l1, sn, 1)
    ELSE
        LET l1 == [l EXCEPT !.start = l.command_start, !.byte = l.byte_value]
        IN  IF l.seg = "command_data"
            THEN CommandDataLoop(Append(log, put_command_data(l1.start, sn, l1.byte)),
                                 l1, sn, l.nbytes + 1)
            ELSE ResponseLoop(Append(log, put_response_data(l1.start, sn, l1.byte)),
                              l1, sn, l.nbytes + 1)

\* decode() from the return of a read_byte() call to the next wait().
ByteDone(log, l, sn) ==
    IF l.seg = "opcode" THEN
        LET l1 == [l EXCEPT !.command_start = l.byte_start, !.command = l.byte_value]
            log1 == Append(log, put_command(l1.command_start, sn, l1.command))
        IN  IF l1.command \notin Opcodes
            THEN Catch(log1, l1, sn, "Unknown command")
            ELSE CommandDataLoop(log1, l1, sn, 1)
    ELSE
        LET l1 == [l EXCEPT !.start = l.byte_start, !.byte = l.byte_value]
        IN  IF l.seg = "command_data"
            THEN CommandDataLoop(Append(log, put_command_data(l1.start, sn, l1.byte)),
                                 l1, sn, l.nbytes + 1)
            ELSE ResponseLoop(Append(log, put_response_data(l1.start, sn, l1.byte)),
                              l1, sn, l.nbytes + 1)

\* read_bit(), after the first wait(): if si == 0: raise Exception("Bit timeout")
RiseTimedOut(si) == si = 0

\* Variant: the second check repeats the first one (si == 0).
FallTimedOutCopied(si) == si = 0

\* read_bit(), after the second wait(): if si == 1: raise Exception("Bit timeout")
FallTimedOut(si) == si = 1

\* Variant: bits are shifted in from the top, least significant bit first.
ShiftInLsbFirst(byte_value, bit_value) == 128 * bit_value + byte_value \div 2

\* byte_value = (byte_value << 1) | bit_value
ShiftIn(byte_value, bit_value) == 2 * byte_value + bit_value

\* Variant: the comparison is not strict (a tie reads as 0).
ClassifyTieZero(low_duration, midpoint) == IF low_duration >= midpoint THEN 0 ELSE 1

\* bit_value = 0 if low_duration > self.bit_midpoint_samples else 1
Classify(low_duration, midpoint) == IF low_duration > midpoint THEN 0 ELSE 1

\* Variant: the bit annotation starts at the start of the byte.
BitDoneFromByteStart(log, l, sn) ==
    LET log1 == Append(log, put_bit(l.byte_start, sn, l.bit_value))
        l1 == [l EXCEPT !.byte_value = ShiftIn(l.byte_value, l.bit_value),
                        !.nbits = l.nbits + 1]
    IN  IF l1.nbits < 8 THEN StartBit(log1, l1, sn) ELSE ByteDone(log1, l1, sn)

\* read_bit() after its second wait() returned a falling edge at sn, and
\* read_byte()'s loop (for _ in range(8)) around it.
BitDone(log, l, sn) ==
    LET log1 == Append(log, put_bit(l.bit_start, sn, l.bit_value))
        l1 == [l EXCEPT !.byte_value = ShiftIn(l.byte_value, l.bit_value),
                        !.nbits = l.nbits + 1]
    IN  IF l1.nbits < 8 THEN StartBit(log1, l1, sn) ELSE ByteDone(log1, l1, sn)

-----------------------------------------------------------------------------
(* Captures checked.                                                       *)

Rate1 == 1000000
Rate24 == 24000000

Variants == {"nominal", "edge", "wide"}

BaseCapture(rate) ==
    [rate |-> rate, pre |-> 3, lead |-> TxTiming(rate).idle_min + 1, op |-> 0,
     fill |-> 165, var |-> "nominal", fpos |-> -1, flen |-> 0,
     gap |-> TxTiming(rate).idle_min + 1, cut |-> 0]

\* Every opcode of the table and every other byte value, all pulse shapes.
FrameCaptures ==
    {[BaseCapture(Rate1) EXCEPT !.op = o, !.var = v] : o \in Opcodes, v \in Variants}
    \cup {[BaseCapture(Rate1) EXCEPT !.op = o] : o \in (0 .. 255) \ Opcodes}

Rate24Captures ==
    {[BaseCapture(Rate24) EXCEPT !.op = o, !.var = v, !.pre = p] :
        o \in {0, 170}, v \in Variants, p \in {0, 3}}

\* Lead-in and inter-frame gap around idle_min.
IdleCaptures ==
    LET n == TxTiming(Rate1).idle_min
    IN  {[BaseCapture(Rate1) EXCEPT !.lead = l, !.gap = g, !.pre = p] :
            l \in (n - 1) .. (n + 1), g \in (n - 1) .. (n + 1), p \in {0, 3}}

\* One run of frame 1 stretched beyond the bit or the response timeout.
FaultCaptures ==
    LET t == TxTiming(Rate1)
    IN  {[BaseCapture(Rate1) EXCEPT !.op = o, !.fpos = k, !.flen = n] :
            o \in {0, 4}, k \in 0 .. MaxFaultPos,
            n \in {t.bit_timeout + 1, t.response_timeout + 1}}

\* Every byte value as a response byte.
ByteCaptures ==
    {[BaseCapture(Rate1) EXCEPT !.op = 1, !.fill = f] : f \in 0 .. MaxFill}

\* Captures that end early.
CutCaptures == {[BaseCapture(Rate1) EXCEPT !.cut = n] : n \in 1 .. MaxCut}

\* Captures without a usable sample rate.
NoRateCaptures == {[BaseCapture(Rate1) EXCEPT !.rate = r] : r \in {Unset, 0}}

\* Sample rates below 400 kHz, where 2.5 us is less than one sample; the
\* capture is a lead-in only.
LowRates == {100000, 50000}

LowRateCaptures == {[BaseCapture(r) EXCEPT !.cut = 2] : r \in LowRates}

\* A high phase of frame 1 (the first bit's, or the response gap) that
\* outlasts its timeout by idle_min + 1 or idle_min + 2 samples, and an
\* inter-frame gap around idle_min.  The response bytes are 0x00, 0x40, 0x80,
\* so that a decoder that resynchronises on the response reads a known opcode.
RecoveryCaptures ==
    LET t == TxTiming(Rate1)
    IN  {[BaseCapture(Rate1) EXCEPT !.fill = 192, !.lead = t.idle_min + 2, !.fpos = k,
            !.flen = (IF k = 17 THEN t.response_timeout ELSE t.bit_timeout) + t.idle_min + d,
            !.gap = g] :
            k \in {1, 17}, d \in {1, 2}, g \in {t.idle_min, t.idle_min + 1}}

Captures ==
    FrameCaptures \cup Rate24Captures \cup IdleCaptures \cup FaultCaptures
    \cup ByteCaptures \cup CutCaptures \cup NoRateCaptures
    \cup LowRateCaptures \cup RecoveryCaptures

-----------------------------------------------------------------------------
(* The decoder.                                                            *)

NoLocals ==
    [command_start |-> 0, command |-> 0, start |-> 0, byte |-> 0,
     byte_start |-> 0, byte_value |-> 0, bit_start |-> 0, bit_value |-> 0,
     low_duration |-> 0, nbits |-> 0, stop_start |-> 0, width |-> 0,
     seg |-> "none", nbytes |-> 0]

\* __init__() / reset(); the host has not yet called metadata().
Init ==
    /\ cap \in Captures
    /\ samplerate = Unset
    /\ idle_min_samples = Unset
    /\ bit_midpoint_samples = Unset
    /\ bit_command_samples = Unset
    /\ bit_response_samples = Unset
    /\ bit_timeout_samples = Unset
    /\ response_timeout_samples = Unset
    /\ state = "INITIAL"
    /\ samplenum = 0
    /\ out_ann = << >>
    /\ pc = "config"
    /\ loc = NoLocals
    /\ raised = ""
    /\ run = (IF cap.pre = 0 THEN 1 ELSE 0)
    /\ rem = RunLen(cap, run)
    /\ matched = FALSE

\* metadata(key, value): the method itself has no precondition; when the
\* host calls it is decided where it is used.
MetadataStaleResponse(key, value) ==
    /\ IF key = SRD_CONF_SAMPLERATE
       THEN /\ samplerate' = value
            /\ idle_min_samples' = us_to_samples(value, IdleUs10)
            /\ bit_midpoint_samples' = us_to_samples(value, MidpointUs10)
            /\ bit_command_samples' = us_to_samples(value, CommandBitUs10)
            /\ bit_response_samples' = bit_response_samples
            /\ bit_timeout_samples' = us_to_samples(value, BitTimeoutUs10)
            /\ response_timeout_samples' = us_to_samples(value, ResponseTimeoutUs10)
       ELSE UNCHANGED <<samplerate, timing>>
    /\ UNCHANGED <<state, samplenum, out_ann, pc, loc, raised, line>>

Metadata(key, value) ==
    /\ IF key = SRD_CONF_SAMPLERATE
       THEN /\ samplerate' = value
            /\ idle_min_samples' = us_to_samples(value, IdleUs10)
            /\ bit_midpoint_samples' = us_to_samples(value, MidpointUs10)
            /\ bit_command_samples' = us_to_samples(value, CommandBitUs10)
            /\ bit_response_samples' = us_to_samples(value, ResponseBitUs10)
            /\ bit_timeout_samples' = us_to_samples(value, BitTimeoutUs10)
            /\ response_timeout_samples' = us_to_samples(value, ResponseTimeoutUs10)
       ELSE UNCHANGED <<samplerate, timing>>
    /\ UNCHANGED <<state, samplenum, out_ann, pc, loc, raised, line>>

\* decode() up to its first wait(): the sample rate check.
DecodeStart ==
    /\ pc = "config"
    /\ IF samplerate = Unset
       THEN pc' = "done" /\ raised' = "AttributeError"
       ELSE IF samplerate = 0
       THEN pc' = "done" /\ raised' = "Cannot decode without samplerate."
       ELSE pc' = "initial_h" /\ raised' = raised
    /\ UNCHANGED <<samplerate, timing, state, samplenum, out_ann, loc, line>>

\* The cursor moves to where wait() matched.
Advance(w) ==
    /\ samplenum' = w.sn
    /\ run' = w.run
    /\ rem' = w.rem
    /\ matched' = TRUE
    /\ cap' = cap

\* wait() raised outside the try block: decode() ends.
Exhausted ==
    /\ pc' = "done"
    /\ raised' = "EOF"
    /\ UNCHANGED <<state, samplenum, out_ann, loc, line>>

\* The code after a wait() of the COMMAND branch ran up to the next wait().
Continue(w, r) ==
    /\ Advance(w)
    /\ out_ann' = r.out_ann
    /\ state' = r.state
    /\ pc' = r.pc
    /\ loc' = r.loc
    /\ raised' = raised

\* INITIAL: self.wait({0: "h"})
InitialWaitHigh ==
    /\ pc = "initial_h"
    /\ LET w == WaitHigh
       IN  IF w.eof THEN Exhausted
           ELSE /\ Advance(w)
                /\ pc' = "initial_f"
                /\ UNCHANGED <<state, out_ann, loc, raised>>
    /\ UNCHANGED <<samplerate, timing>>

\* INITIAL: (si,) = self.wait([{0: "f"}, {"skip": self.idle_min_samples}])
IdleWaitLong == WaitEdgeOrSkip(idle_min_samples + 1)

IdleWait == WaitEdgeOrSkip(idle_min_samples)

InitialWaitIdle ==
    /\ pc = "initial_f"
    /\ LET w == IdleWait
       IN  IF w.eof THEN Exhausted
           ELSE /\ Advance(w)
                /\ state' = (IF w.si = 1 THEN "IDLE" ELSE state)
                /\ pc' = (IF w.si = 1 THEN "idle_f" ELSE "initial_h")
                /\ UNCHANGED <<out_ann, loc, raised>>
    /\ UNCHANGED <<samplerate, timing>>

\* IDLE: self.wait({0: "f"}), then the COMMAND branch up to the first wait()
\* of read_bit().
IdleWaitFall ==
    /\ pc = "idle_f"
    /\ LET w == WaitEdge
       IN  IF w.eof THEN Exhausted
           ELSE Continue(w, StartByte(out_ann,
                    [loc EXCEPT !.command_start = w.sn, !.seg = "opcode", !.nbytes = 0],
                    w.sn))
    /\ UNCHANGED <<samplerate, timing>>

\* read_bit(): (si,) = self.wait([{0: "r"}, {"skip": self.bit_timeout_samples}])
ReadBitWaitRise ==
    /\ pc = "bit_r"
    /\ LET w == WaitEdgeOrSkip(bit_timeout_samples)
           low_duration == w.sn - loc.bit_start
       IN  IF w.eof THEN Continue(w, Catch(out_ann, loc, w.sn, "EOF"))
           ELSE IF RiseTimedOut(w.si)
           THEN Continue(w, Catch(out_ann, loc, w.sn, "Bit timeout"))
           ELSE Continue(w, Reached(out_ann, "COMMAND", "bit_f",
                    [loc EXCEPT !.low_duration = low_duration,
                                !.bit_value = Classify(low_duration, bit_midpoint_samples)]))
    /\ UNCHANGED <<samplerate, timing>>

\* read_bit(): (si,) = self.wait([{0: "f"}, {"skip": self.bit_timeout_samples}])
ReadBitWaitFall ==
    /\ pc = "bit_f"
    /\ LET w == WaitEdgeOrSkip(bit_timeout_samples)
       IN  IF w.eof THEN Continue(w, Catch(out_ann, loc, w.sn, "EOF"))
           ELSE IF FallTimedOut(w.si)
           THEN Continue(w, Catch(out_ann, loc, w.sn, "Bit timeout"))
           ELSE Continue(w, BitDone(out_ann, loc, w.sn))
    /\ UNCHANGED <<samplerate, timing>>

\* read_stop_bit(width): self.wait({0: "r"}), then decode() up to the next
\* wait().
StopWaitTimed == WaitEdgeOrSkip(bit_timeout_samples)

StopWait == WaitEdge

ReadStopBit ==
    /\ pc = "stop_r"
    /\ LET w == StopWait
           log1 == Append(out_ann, put_stop_bit(loc.stop_start, loc.stop_start + loc.width))
       IN  IF w.eof THEN Continue(w, Catch(out_ann, loc, w.sn, "EOF"))
           ELSE IF loc.seg = "command"
           THEN Continue(w, Reached(log1, "COMMAND", "resp_f", loc))
           ELSE Continue(w, Reached(log1, "IDLE", "idle_f", loc))
    /\ UNCHANGED <<samplerate, timing>>

\* (si,) = self.wait([{0: "f"}, {"skip": self.response_timeout_samples}])
ResponseWait ==
    /\ pc = "resp_f"
    /\ LET w == WaitEdgeOrSkip(response_timeout_samples)
       IN  IF w.eof THEN Continue(w, Catch(out_ann, loc, w.sn, "EOF"))
           ELSE IF w.si = 1 THEN Continue(w, Catch(out_ann, loc, w.sn, "Response timeout"))
           ELSE Continue(w, ResponseLoop(out_ann, loc, w.sn, 0))
    /\ UNCHANGED <<samplerate, timing>>

Next ==
    \/ \E key \in {SRD_CONF_SAMPLERATE, OtherKey} :
            /\ pc = "config"
            /\ key = SRD_CONF_SAMPLERATE => cap.rate # Unset
            /\ Metadata(key, cap.rate)
    \/ DecodeStart
    \/ InitialWaitHigh
    \/ InitialWaitIdle
    \/ IdleWaitFall
    \/ ReadBitWaitRise
    \/ ReadBitWaitFall
    \/ ReadStopBit
    \/ ResponseWait

Spec == Init /\ [][Next]_vars

\* The steps of decode(): the decoder thread runs whenever the sample it
\* waits for is there.
DecodeStep ==
    \/ DecodeStart
    \/ InitialWaitHigh
    \/ InitialWaitIdle
    \/ IdleWaitFall
    \/ ReadBitWaitRise
    \/ ReadBitWaitFall
    \/ ReadStopBit
    \/ ResponseWait

LiveSpec == Spec /\ WF_vars(DecodeStep)

\* The host calls metadata() again while decode() is blocked in a wait():
\* the capture's rate is replaced by another one, once.
Reconfigure ==
    /\ pc \notin {"config", "done"}
    /\ samplerate = cap.rate
    /\ Metadata(SRD_CONF_SAMPLERATE, Rate24)

ReconfigInit == Init /\ cap \in CutCaptures

ReconfigNext == Next \/ Reconfigure

ReconfigSpec == ReconfigInit /\ [][ReconfigNext]_vars

-----------------------------------------------------------------------------
(* Vocabulary of the properties.                                           *)

CountKind(log, k) == Len(SelectSeq(log, LAMBDA e : e.kind = k))

NonBit(log) == SelectSeq(log, LAMBDA e : e.kind # AnnBit)

Kinds(log) == [i \in 1 .. Len(log) |-> log[i].kind]

Texts(log) == [i \in 1 .. Len(log) |-> log[i].val]

\* The annotations put by the step.
NewAnn == SubSeq(out_ann', Len(out_ann) + 1, Len(out_ann'))

IsPrefix(s, t) == Len(s) <= Len(t) /\ SubSeq(t, 1, Len(s)) = s

\* The capture has a usable sample rate and the line is idle long enough
\* before frame 1 for the decoder to be in IDLE when the frame begins.
Synchronised(c) ==
    c.rate \notin {Unset, 0} /\ c.cut = 0 /\ c.lead > TxTiming(c.rate).idle_min

\* Frame 1 is a well-formed exchange of a command of the table.
WellFormed(c) == Synchronised(c) /\ c.fpos = -1 /\ c.op \in Opcodes

\* Index of the high run that follows frame 1.
GapRun(c) == 2 + FrameRuns(c.op)

-----------------------------------------------------------------------------
\* C1: Frame length correctness.  For every opcode of the command table, a
\* well-formed exchange that begins with the decoder in IDLE is decoded
\* without leaving COMMAND and without an Error annotation, and when its last
\* stop bit has been read the decoder is in IDLE and has put exactly one
\* Command, command_len - 1 CommandData, response_len ResponseData and two
\* StopBit annotations.
FrameLengthCorrect ==
    WellFormed(cap) =>
        /\ (2 <= run /\ run < GapRun(cap)) =>
                state = "COMMAND" /\ CountKind(out_ann, AnnError) = 0
        /\ run = GapRun(cap) =>
                /\ state = "IDLE"
                /\ CountKind(out_ann, AnnCommand) = 1
                /\ CountKind(out_ann, AnnCommandData)
                        = JOYBUS_COMMANDS[cap.op].command_len - 1
                /\ CountKind(out_ann, AnnResponseData)
                        = JOYBUS_COMMANDS[cap.op].response_len
                /\ CountKind(out_ann, AnnStopBit) = 2
                /\ CountKind(out_ann, AnnError) = 0

\* A 35-byte command has been decoded to its end.
FrameLengthWitness ==
    /\ WellFormed(cap)
    /\ cap.op = 3
    /\ run = GapRun(cap)
    /\ CountKind(out_ann, AnnCommandData) = 34

-----------------------------------------------------------------------------
\* The step reads the last bit of an opcode byte that is not in the table.
UnknownOpcodeStep ==
    /\ pc = "bit_f"
    /\ loc.seg = "opcode"
    /\ Len(NewAnn) > 1
    /\ NewAnn[2].kind = AnnCommand
    /\ loc'.command \notin Opcodes

\* Frame 1 has an opcode outside the table, is otherwise intact, and is
\* followed by a high gap longer than idle_min.
UnknownThenIdle(c) ==
    /\ Synchronised(c)
    /\ c.fpos = -1
    /\ c.op \notin Opcodes
    /\ c.gap > TxTiming(c.rate).idle_min

\* C2: Unknown-opcode resync.  An opcode byte that is not a key of the table
\* yields a Command annotation named by its raw hex value and then exactly one
\* Error annotation, nothing else is read for that frame, the state becomes
\* INITIAL; the well-formed frame that follows an idle gap is decoded.
UnknownOpcodeResync ==
    /\ [][UnknownOpcodeStep =>
            /\ Len(NewAnn) = 3
            /\ NewAnn[2].val = "Command: " \o Hex2(cap.op)
            /\ NewAnn[3].kind = AnnError
            /\ NewAnn[3].val = "Unknown command"
            /\ state' = "INITIAL"
            /\ pc' = "initial_h"]_vars
    /\ []((UnknownThenIdle(cap) /\ pc = "done" /\ raised = "EOF") =>
            Texts(NonBit(out_ann)) =
                << "Command: " \o Hex2(cap.op), "Unknown command",
                   "Command: Info", "Stop",
                   "Data: " \o Hex2(TxByte(cap, Frame2Op, 1)),
                   "Data: " \o Hex2(TxByte(cap, Frame2Op, 2)),
                   "Data: " \o Hex2(TxByte(cap, Frame2Op, 3)),
                   "Stop" >>)

\* Opcode 0xAA was rejected and the following Info frame decoded.
UnknownOpcodeWitness ==
    /\ UnknownThenIdle(cap)
    /\ cap.op = 170
    /\ pc = "done"
    /\ CountKind(out_ann, AnnError) = 1
    /\ CountKind(out_ann, AnnResponseData) = 3

-----------------------------------------------------------------------------
\* The edge read_bit() waits for does not arrive within bit_timeout samples.
BitEdgeMissing == pc \in {"bit_r", "bit_f"} /\ rem > bit_timeout_samples

\* C3: Timeout resync.  When an expected edge of a bit does not arrive within
\* bit_timeout samples, the step puts exactly one Error annotation (the only
\* one of that frame) and the state becomes INITIAL; from INITIAL the state can
\* only become IDLE, and COMMAND is entered only from IDLE, so no frame is
\* accepted before the decoder went through INITIAL and IDLE again.
TimeoutResync ==
    /\ [][BitEdgeMissing =>
            /\ CountKind(NewAnn, AnnError) = 1
            /\ CountKind(SelectSeq(out_ann', LAMBDA e : e.ss >= loc.command_start),
                         AnnError) = 1
            /\ state' = "INITIAL"]_vars
    /\ [][(state = "INITIAL" /\ state' # state) => state' = "IDLE"]_vars
    /\ [][(state' = "COMMAND" /\ state' # state) => state = "IDLE"]_vars

\* A frame was cut in its second response byte, the decoder resynchronised on
\* the gap and is decoding the next frame.
TimeoutResyncWitness ==
    /\ cap.fpos = 36
    /\ cap.op = 0
    /\ state = "COMMAND"
    /\ CountKind(out_ann, AnnError) = 1
    /\ out_ann[Len(out_ann)].kind = AnnBit
    /\ out_ann[Len(out_ann)].ss > cap.pre + cap.lead + 200

-----------------------------------------------------------------------------
\* C4: Idle debounce.  In INITIAL, with the line seen high, a falling edge
\* after fewer than idle_min samples keeps the state INITIAL, and a high period
\* of at least idle_min samples (exactly idle_min included) makes it IDLE.
IdleDebounce ==
    [][(pc = "initial_f" /\ pc' # "done") =>
            /\ rem < idle_min_samples => state' = "INITIAL"
            /\ rem >= idle_min_samples => state' = "IDLE"]_vars

-----------------------------------------------------------------------------
\* The step fails inside the COMMAND branch, with the message it raises.
FailureMessage ==
    IF BitEdgeMissing THEN "Bit timeout"
    ELSE IF pc = "resp_f" /\ rem > response_timeout_samples THEN "Response timeout"
    ELSE IF UnknownOpcodeStep THEN "Unknown command"
    ELSE ""

\* C5: Every failure raised inside COMMAND (bit timeout, unknown command,
\* response timeout) puts exactly one Error annotation, the last of the step,
\* from the sample at which COMMAND was entered to the current sample and with
\* the failure's message, and leaves the state INITIAL; the frame's start
\* sample is the one at which COMMAND was entered and does not change during
\* the frame.
FailureReported ==
    /\ [][FailureMessage # "" =>
            /\ CountKind(NewAnn, AnnError) = 1
            /\ NewAnn[Len(NewAnn)]
                    = put_error(loc.command_start, samplenum', FailureMessage)
            /\ state' = "INITIAL"
            /\ pc' = "initial_h"]_vars
    /\ [][(state' = "COMMAND" /\ state # "COMMAND") =>
            loc'.command_start = samplenum']_vars
    /\ [][(state = "COMMAND" /\ state' = "COMMAND") =>
            loc'.command_start = loc.command_start]_vars

\* The response did not start in time: the Error annotation spans the frame.
FailureReportedWitness ==
    /\ state = "INITIAL"
    /\ out_ann # << >>
    /\ out_ann[Len(out_ann)].kind = AnnError
    /\ out_ann[Len(out_ann)].val = "Response timeout"
    /\ out_ann[Len(out_ann)].ss = cap.pre + cap.lead
    /\ out_ann[Len(out_ann)].es = samplenum

-----------------------------------------------------------------------------
\* C6: Bit classification.  The value of every Bit annotation is 0 if and
\* only if the low pulse of the bit (the low run of the line that the bit
\* began with) is longer than bit_midpoint, whatever the length of the high
\* pulse that follows and wherever in the frame the bit is.
BitClassification ==
    [][(pc = "bit_f" /\ Len(NewAnn) > 0 /\ NewAnn[1].kind = AnnBit) =>
            /\ NewAnn[1].val
                    = (IF RunLen(cap, run - 1) > bit_midpoint_samples THEN "0" ELSE "1")
            /\ NewAnn[1].ss = samplenum - RunLen(cap, run - 1)
            /\ NewAnn[1].es = samplenum + rem]_vars

\* A low pulse of exactly bit_midpoint samples was read as 1.
BitClassificationWitness ==
    /\ pc = "bit_r"
    /\ loc.nbits > 0
    /\ out_ann[Len(out_ann)].kind = AnnBit
    /\ out_ann[Len(out_ann)].val = "1"
    /\ RunLen(cap, run - 2) = bit_midpoint_samples

-----------------------------------------------------------------------------
\* The bit that the b-th low pulse (b in 1..8) of the byte ending with the
\* current high run encodes: 0 for a low pulse longer than bit_midpoint.
SentBit(b) == IF RunLen(cap, run - 17 + 2 * b) > bit_midpoint_samples THEN 0 ELSE 1

\* The byte those eight bits encode, most significant bit first.
SentByte ==
    128 * SentBit(1) + 64 * SentBit(2) + 32 * SentBit(3) + 16 * SentBit(4)
    + 8 * SentBit(5) + 4 * SentBit(6) + 2 * SentBit(7) + SentBit(8)

\* The text of a byte annotation of kind k for value v.
ByteText(k, v) ==
    IF k = AnnCommand THEN put_command(0, 0, v).val ELSE "Data: " \o Hex2(v)

\* C7: Byte assembly round-trip.  A byte annotation is put by the step that
\* reads the eighth bit of the byte, right after exactly eight Bit
\* annotations, and its value is the byte that the eight low pulses encode,
\* most significant bit first; every byte value 0..255 sent as a response byte
\* comes out as sent.
ByteRoundTrip ==
    /\ [][(pc = "bit_f" /\ Len(NewAnn) >= 2) =>
            /\ loc.nbits = 7
            /\ NewAnn[1].kind = AnnBit
            /\ NewAnn[2].kind \in {AnnCommand, AnnCommandData, AnnResponseData}
            /\ Len(out_ann) >= 7
            /\ \A i \in 0 .. 6 : out_ann[Len(out_ann) - i].kind = AnnBit
            /\ Len(out_ann) = 7 \/ out_ann[Len(out_ann) - 7].kind # AnnBit
            /\ (IF loc.seg = "opcode" THEN loc'.command ELSE loc'.byte) = SentByte
            /\ NewAnn[2].val = ByteText(NewAnn[2].kind, SentByte)]_vars
    /\ []((cap \in ByteCaptures /\ pc = "done" /\ raised = "EOF") =>
            SubSeq(Texts(NonBit(out_ann)), 3, 6) =
                << "Data: " \o Hex2(TxByte(cap, cap.op, 1)),
                   "Data: " \o Hex2(TxByte(cap, cap.op, 2)),
                   "Data: " \o Hex2(TxByte(cap, cap.op, 3)),
                   "Data: " \o Hex2(TxByte(cap, cap.op, 4)) >>)

\* The response byte 0xFF was sent and read back.
ByteRoundTripWitness ==
    /\ cap \in ByteCaptures
    /\ cap.fill = 63
    /\ pc = "done"
    /\ Len(NonBit(out_ann)) >= 6
    /\ NonBit(out_ann)[5] \in {put_response_data(e.ss, e.es, 255) : e \in {NonBit(out_ann)[5]}}

-----------------------------------------------------------------------------
\* Frame 1 is a well-formed Info exchange captured at 24 MHz.
InfoAt24MHz(c) == WellFormed(c) /\ c.rate = Rate24 /\ c.op = 0

\* C8: End-to-end event order.  At 24 MHz the timing is idle_min 2400,
\* bit_midpoint 60, bit_timeout 240, response_timeout 1200 samples, and a
\* well-formed Info frame yields, Bit annotations aside, exactly Command
\* "Info", StopBit, three ResponseData, StopBit, in that order, after which
\* the decoder is in IDLE.
EndToEndInfo ==
    (InfoAt24MHz(cap) /\ pc \notin {"config", "done"}) =>
        /\ idle_min_samples = 2400
        /\ bit_midpoint_samples = 60
        /\ bit_timeout_samples = 240
        /\ response_timeout_samples = 1200
        /\ run = GapRun(cap) =>
                /\ state = "IDLE"
                /\ Kinds(NonBit(out_ann))
                        = << AnnCommand, AnnStopBit, AnnResponseData, AnnResponseData,
                             AnnResponseData, AnnStopBit >>
                /\ NonBit(out_ann)[1].val = "Command: Info"

\* The Info frame has been decoded at 24 MHz.
EndToEndInfoWitness ==
    /\ InfoAt24MHz(cap)
    /\ pc = "idle_f"
    /\ run = GapRun(cap)
    /\ CountKind(out_ann, AnnResponseData) = 3

-----------------------------------------------------------------------------
\* annotation_rows: the row an annotation is displayed in.
Row(e) ==
    IF e.kind \in {AnnCommand, AnnCommandData, AnnResponseData} THEN "bytes"
    ELSE IF e.kind \in {AnnBit, AnnStopBit} THEN "bits"
    ELSE "errors"

\* C9 as stated: the annotations are strictly monotonic in sample position in
\* the order they are put (each one starts, or at least ends, after the one
\* put before it).  The annotation put when the capture ends is left aside.
PositionsStrictlyIncrease ==
    \A i \in 1 .. (Len(out_ann) - 1) :
        \/ out_ann[i].ss < out_ann[i + 1].ss
        \/ out_ann[i].es < out_ann[i + 1].es
        \/ out_ann[i + 1].val = "EOF"

\* C9 as amended: annotations are only ever appended, each one when the bits it
\* covers have been consumed (it starts at or before the current sample and
\* not before the start of the frame being decoded), and within one
\* annotation row (bytes, bits, errors) start samples strictly increase.
EventOrder ==
    [][/\ IsPrefix(out_ann, out_ann')
       /\ \A i \in (Len(out_ann) + 1) .. Len(out_ann') :
            /\ out_ann'[i].ss <= samplenum'
            /\ out_ann'[i].ss >= loc'.command_start
            /\ \A j \in 1 .. (i - 1) :
                    Row(out_ann'[j]) = Row(out_ann'[i]) => out_ann'[j].ss < out_ann'[i].ss
      ]_vars

\* Two whole frames, the first with 36 payload bytes, have been annotated.
EventOrderWitness ==
    /\ cap.op = 2
    /\ pc = "done"
    /\ CountKind(out_ann, AnnCommand) = 2
    /\ CountKind(out_ann, AnnStopBit) = 4
    /\ CountKind(out_ann, AnnResponseData) = 36

-----------------------------------------------------------------------------
\* C10: read_bit() fails with "Bit timeout" if and only if the edge it waits
\* for (the rising edge that ends the low pulse, then the falling edge that
\* ends the high pulse) does not arrive within bit_timeout samples of the start
\* of the wait; the failing step puts no Bit annotation and ends the frame.
BitTimeoutIff ==
    [][(pc = "bit_r" \/ pc = "bit_f") =>
       (LET failed == /\ Len(NewAnn) > 0
                      /\ NewAnn[Len(NewAnn)].kind = AnnError
                      /\ NewAnn[Len(NewAnn)].val = "Bit timeout"
        IN  /\ failed <=> rem > bit_timeout_samples
            /\ failed => /\ Len(NewAnn) = 1
                         /\ samplenum' = samplenum + bit_timeout_samples
                         /\ state' = "INITIAL"
                         /\ pc' = "initial_h")]_vars

\* A bit's high pulse lasted one sample too long, in the middle of a byte.
BitTimeoutWitness ==
    /\ state = "INITIAL"
    /\ Len(out_ann) > 1
    /\ out_ann[Len(out_ann)].val = "Bit timeout"
    /\ out_ann[Len(out_ann) - 1].kind = AnnBit
    /\ Level(run) = 1
    /\ RunLen(cap, run) = bit_timeout_samples + 1
    /\ rem = 1

-----------------------------------------------------------------------------
\* The annotations of the frame in progress: those that start at or after
\* the sample at which COMMAND was entered.
FrameEvents(log, l) == SelectSeq(log, LAMBDA e : e.ss >= l.command_start)

\* C11: Response timeout.  At the wait that follows the command's stop bit,
\* if the line stays high for more than response_timeout samples the step puts
\* exactly one Error annotation "Response timeout", ending response_timeout
\* samples after the stop bit's rising edge, the state becomes INITIAL, and the
\* frame has no response data byte and only the command's stop bit; if the
\* falling edge comes within response_timeout samples the decoder starts
\* reading the response without any annotation, and it reads exactly
\* response_len response bytes before the response's stop bit, never more.
ResponseTimeoutRule ==
    /\ [][pc = "resp_f" =>
            IF rem > response_timeout_samples
            THEN /\ NewAnn = <<put_error(loc.command_start,
                                         samplenum + response_timeout_samples,
                                         "Response timeout")>>
                 /\ state' = "INITIAL"
                 /\ CountKind(FrameEvents(out_ann', loc), AnnResponseData) = 0
                 /\ CountKind(FrameEvents(out_ann', loc), AnnStopBit) = 1
            ELSE run < LastRun =>
                 /\ NewAnn = << >>
                 /\ state' = "COMMAND"
                 /\ pc' = "bit_r"
                 /\ loc'.seg = "response"
                 /\ samplenum' = samplenum + rem]_vars
    /\ [][(/\ CountKind(NewAnn, AnnResponseData) = 1
            /\ CountKind(FrameEvents(out_ann', loc), AnnResponseData)
                   = JOYBUS_COMMANDS[loc.command].response_len)
              => pc' = "stop_r"]_vars
    /\ [](state = "COMMAND" =>
            /\ loc.seg = "response" =>
                  CountKind(FrameEvents(out_ann, loc), AnnResponseData)
                      <= JOYBUS_COMMANDS[loc.command].response_len
            /\ (pc = "stop_r" /\ loc.seg = "response") =>
                  CountKind(FrameEvents(out_ann, loc), AnnResponseData)
                      = JOYBUS_COMMANDS[loc.command].response_len)

\* A Read EEPROM command whose response does not come: the timeout was
\* reported after the command byte, its data byte and its stop bit.
ResponseTimeoutWitness ==
    /\ cap.op = 4
    /\ cap.fpos = 33
    /\ pc = "initial_h"
    /\ Kinds(NonBit(out_ann)) = <<AnnCommand, AnnCommandData, AnnStopBit, AnnError>>
    /\ out_ann[Len(out_ann)].val = "Response timeout"
    /\ out_ann[Len(out_ann)].es = samplenum
    /\ rem = cap.flen - response_timeout_samples

-----------------------------------------------------------------------------
\* The six derived fields, in the order of metadata().
DerivedTiming(rate) ==
    <<us_to_samples(rate, IdleUs10), us_to_samples(rate, MidpointUs10),
      us_to_samples(rate, CommandBitUs10), us_to_samples(rate, ResponseBitUs10),
      us_to_samples(rate, BitTimeoutUs10), us_to_samples(rate, ResponseTimeoutUs10)>>

\* C12: TimingProfile invariant.  Once a sample rate above zero is configured,
\* every derived field (idle_min, bit_midpoint, the two stop-bit widths,
\* bit_timeout, response_timeout) is strictly positive, or else the rate was
\* rejected: decode() has not gone past its sample rate check and, if it
\* ended, it ended with the configuration error.
TimingProfilePositive ==
    (samplerate > 0 /\ \E i \in 1 .. 6 : timing[i] <= 0) =>
        \/ pc = "config"
        \/ pc = "done" /\ raised = "Cannot decode without samplerate."

-----------------------------------------------------------------------------
\* C13: decode() started with a zero or absent sample rate ends at once with
\* the configuration error "Cannot decode without samplerate.": no wait() was
\* issued, no annotation was put and the state is still INITIAL.
ConfigErrorHalts ==
    (pc # "config" /\ samplerate \in {Unset, 0}) =>
        /\ pc = "done"
        /\ raised = "Cannot decode without samplerate."
        /\ ~matched
        /\ samplenum = 0
        /\ out_ann = << >>
        /\ state = "INITIAL"

-----------------------------------------------------------------------------
\* The result of the wait() call the decoder is blocked in.
PendingWait ==
    CASE pc = "initial_h" -> WaitHigh
      [] pc = "initial_f" -> IdleWait
      [] pc = "idle_f" -> WaitEdge
      [] pc \in {"bit_r", "bit_f"} -> WaitEdgeOrSkip(bit_timeout_samples)
      [] pc = "stop_r" -> StopWait
      [] pc = "resp_f" -> WaitEdgeOrSkip(response_timeout_samples)
      [] OTHER -> Eof

\* C14: End of capture.  When the samples run out while a wait() is pending,
\* in any state including COMMAND, the step puts no annotation (in particular
\* no Error) and leaves the decoder state as it was.
EndOfCaptureSilent ==
    [][(pc \notin {"config", "done"} /\ PendingWait.eof) =>
            (out_ann' = out_ann /\ state' = state)]_vars

-----------------------------------------------------------------------------
\* C15: Stop-bit consumption is pure edge detection.  From the wait of
\* read_stop_bit, whatever the length of the low phase (one sample, the
\* nominal width, more than bit_timeout or more than response_timeout), the
\* step ends at the rising edge, puts exactly one annotation, the StopBit of
\* nominal width (bit_command_samples after a command, bit_response_samples
\* after a response), and goes on to the response wait or to IDLE; no Error
\* is put and the frame is not abandoned.
StopBitEdgeOnly ==
    [][(pc = "stop_r" /\ run < LastRun) =>
            /\ samplenum' = samplenum + rem
            /\ Level(run') = 1
            /\ NewAnn = <<put_stop_bit(loc.stop_start, loc.stop_start +
                            (IF loc.seg = "command" THEN bit_command_samples
                                                    ELSE bit_response_samples))>>
            /\ IF loc.seg = "command"
               THEN state' = "COMMAND" /\ pc' = "resp_f"
               ELSE state' = "IDLE" /\ pc' = "idle_f"]_vars

\* The stop bit of an Info command was held low for longer than the
\* response timeout and the frame completed all the same.
StopBitEdgeOnlyWitness ==
    /\ cap.op = 0
    /\ cap.fpos = 16
    /\ cap.flen > response_timeout_samples
    /\ RunLen(cap, 18) = cap.flen
    /\ run = GapRun(cap)
    /\ pc = "idle_f"
    /\ state = "IDLE"
    /\ Kinds(NonBit(out_ann)) = <<AnnCommand, AnnStopBit, AnnResponseData,
                                  AnnResponseData, AnnResponseData, AnnStopBit>>
    /\ NonBit(out_ann)[3].ss - NonBit(out_ann)[2].ss = cap.flen + RunLen(cap, 19)

-----------------------------------------------------------------------------
\* The kinds of the byte and stop-bit annotations of a complete exchange of
\* command op, in order.
CompleteFrameKinds(op) ==
    LET cl == JOYBUS_COMMANDS[op].command_len
        rl == JOYBUS_COMMANDS[op].response_len
    IN  [i \in 1 .. (cl + rl + 2) |->
            IF i = 1 THEN AnnCommand
            ELSE IF i <= cl THEN AnnCommandData
            ELSE IF i = cl + 1 THEN AnnStopBit
            ELSE IF i <= cl + 1 + rl THEN AnnResponseData
            ELSE AnnStopBit]

\* C16: State-machine transition relation.  The state is always INITIAL,
\* IDLE or COMMAND, and it is COMMAND exactly while the decoder is inside a
\* frame (at a wait of read_bit, read_stop_bit or the response wait).  COMMAND
\* is entered only from IDLE, at a falling edge.  IDLE is entered only from
\* INITIAL, idle_min samples after the line was seen high and with the line
\* still high, or from COMMAND at the end of the response's stop bit with
\* every annotation of a complete frame put and no Error.  INITIAL is entered
\* only from COMMAND, by a step whose last annotation is the frame's Error.
StateTransitions ==
    /\ [](/\ state \in {"INITIAL", "IDLE", "COMMAND"}
          /\ state = "COMMAND" <=> pc \in {"bit_r", "bit_f", "stop_r", "resp_f"}
          /\ state = "IDLE" => pc \in {"idle_f", "done"})
    /\ [][(state # "COMMAND" /\ state' = "COMMAND") =>
            /\ state = "IDLE"
            /\ Level(run) = 1
            /\ Level(run') = 0
            /\ samplenum' = samplenum + rem
            /\ NewAnn = << >>]_vars
    /\ [][(state # "IDLE" /\ state' = "IDLE") =>
            \/ /\ state = "INITIAL"
               /\ pc = "initial_f"
               /\ samplenum' = samplenum + idle_min_samples
               /\ run' = run
               /\ Level(run') = 1
               /\ NewAnn = << >>
            \/ /\ state = "COMMAND"
               /\ pc = "stop_r"
               /\ Level(run') = 1
               /\ Kinds(NonBit(FrameEvents(out_ann', loc)))
                     = CompleteFrameKinds(loc.command)]_vars
    /\ [][(state # "INITIAL" /\ state' = "INITIAL") =>
            /\ state = "COMMAND"
            /\ NewAnn # << >>
            /\ NewAnn[Len(NewAnn)].kind = AnnError
            /\ CountKind(FrameEvents(out_ann', loc'), AnnError) = 1]_vars

\* The second frame is being read after the first one completed: the state
\* went INITIAL, IDLE, COMMAND, IDLE, COMMAND.
StateTransitionsWitness ==
    /\ cap.op = 4
    /\ cap.fpos = -1
    /\ state = "COMMAND"
    /\ pc = "bit_f"
    /\ run > GapRun(cap)
    /\ CountKind(out_ann, AnnStopBit) = 2
    /\ CountKind(out_ann, AnnError) = 0
    /\ loc.bit_start = samplenum - rem + RunLen(cap, run) - RunLen(cap, run - 1)

-----------------------------------------------------------------------------
ByteKinds == {AnnCommand, AnnCommandData, AnnResponseData}

\* C17: Byte atomicity and span.  A step that puts a Command, CommandData or
\* ResponseData annotation puts exactly one, right after the eighth Bit
\* annotation of that byte: the eight annotations before it are Bit
\* annotations, the one before those is not, each bit ends where the next one
\* starts, and the byte annotation runs from the first bit's start to the last
\* bit's end.  A step in which a bit's edge times out puts the "Bit timeout"
\* Error and nothing else: no byte annotation for the partial byte.
ByteAtomic ==
    /\ [][(\E i \in 1 .. Len(NewAnn) : NewAnn[i].kind \in ByteKinds) =>
            LET n == Len(out_ann) + 1
                all == out_ann'
            IN  /\ n >= 8
                /\ Len(all) >= n + 1
                /\ all[n + 1].kind \in ByteKinds
                /\ \A i \in (n + 2) .. Len(all) : all[i].kind \notin ByteKinds
                /\ \A i \in (n - 7) .. n : all[i].kind = AnnBit
                /\ n > 8 => all[n - 8].kind # AnnBit
                /\ \A i \in (n - 7) .. (n - 1) : all[i].es = all[i + 1].ss
                /\ all[n + 1].ss = all[n - 7].ss
                /\ all[n + 1].es = all[n].es
                /\ all[n + 1].ss < all[n + 1].es]_vars
    /\ [][BitEdgeMissing =>
            /\ Len(NewAnn) = 1
            /\ NewAnn[1].kind = AnnError
            /\ NewAnn[1].val = "Bit timeout"
            /\ loc'.byte = loc.byte
            /\ loc'.command = loc.command]_vars

\* The data byte of a Read EEPROM command has just been annotated over its
\* eight bits, the command byte before it over its own.
ByteAtomicWitness ==
    /\ cap.op = 4
    /\ pc = "stop_r"
    /\ loc.seg = "command"
    /\ Len(out_ann) = 18
    /\ out_ann[18].kind = AnnCommandData
    /\ out_ann[9].kind = AnnCommand
    /\ out_ann[18].ss = out_ann[10].ss
    /\ out_ann[18].ss = out_ann[9].es
    /\ out_ann[18].es = samplenum

-----------------------------------------------------------------------------
\* C18: Whenever metadata() sets a sample rate, whether the first one or a
\* new one while a capture is being decoded, the decoder state is INITIAL
\* afterwards, whatever it was before.
MetadataResetsState ==
    [][samplerate' # samplerate => state' = "INITIAL"]_vars

-----------------------------------------------------------------------------
\* C19: The timing fields follow the sample rate and nothing else.  In every
\* state they are unset if no rate was given and otherwise the values
\* metadata() derives from the current rate; a step that changes the rate or
\* any timing field is a metadata() call with a new rate, which sets all six
\* fields from it and touches nothing else; hence metadata() with another key
\* and every step of decode(), error handling included, leave them unchanged.
TimingFollowsRate ==
    /\ [](timing = IF samplerate = Unset
                   THEN <<Unset, Unset, Unset, Unset, Unset, Unset>>
                   ELSE DerivedTiming(samplerate))
    /\ [][(samplerate' # samplerate \/ timing' # timing) =>
            /\ samplerate' # samplerate
            /\ timing' = DerivedTiming(samplerate')
            /\ UNCHANGED <<state, samplenum, out_ann, pc, loc, raised, line>>]_vars
    /\ [][(pc' # pc \/ samplenum' # samplenum \/ out_ann' # out_ann \/ state' # state)
            => UNCHANGED <<samplerate, timing>>]_vars

\* A capture taken at 1 MHz is being decoded with the timing of 24 MHz, set
\* while it was being decoded; bits were read and the frame ended in the
\* except handler.
TimingFollowsRateWitness ==
    /\ cap.rate = Rate1
    /\ samplerate = Rate24
    /\ bit_timeout_samples = 240
    /\ bit_response_samples = 96
    /\ out_ann # << >>
    /\ out_ann[1].kind = AnnBit
    /\ out_ann[Len(out_ann)].kind = AnnError
    /\ pc = "initial_h"

-----------------------------------------------------------------------------
\* The samples not yet examined contain a high period of more than idle_min
\* samples that ends in a falling edge: the rest of the current run, after the
\* sample the cursor is at, or a later run.
IdlePeriodAhead ==
    \E k \in run .. (LastRun - 1) :
        /\ Level(k) = 1
        /\ (IF k = run THEN rem - 1 ELSE RunLen(cap, k)) > idle_min_samples

AfterError ==
    /\ pc = "initial_h"
    /\ out_ann # << >>
    /\ out_ann[Len(out_ann)].kind = AnnError

\* C20: Recovery liveness.  Whenever the decoder has just put an Error (it is
\* in INITIAL, the cursor anywhere, the line high or low) and the samples
\* still to come contain a high period longer than idle_min samples followed
\* by a falling edge, it eventually is in COMMAND again: it does not stay in
\* INITIAL forever, and (COMMAND being entered only from IDLE, at a falling
\* edge) it went through IDLE on the way.
RecoveryLiveness ==
    (AfterError /\ IdlePeriodAhead) ~> (state = "COMMAND")

\* After a response timeout the line stayed high for idle_min + 1 more
\* samples: that was enough, and the decoder took the next falling edge as the
\* start of a command.
RecoveryWitness ==
    /\ cap.fpos = 17
    /\ cap.flen = response_timeout_samples + idle_min_samples + 2
    /\ state = "COMMAND"
    /\ pc = "bit_r"
    /\ run = 20
    /\ out_ann[Len(out_ann)].val = "Response timeout"
    /\ samplenum = out_ann[Len(out_ann)].es + 2 + idle_min_samples

-----------------------------------------------------------------------------
\* C21 as stated: every annotation put by a step starts at or before its end
\* and ends at or before the current sample number; a StopBit of nominal
\* width does not extend past the rising edge that ended the wait.
SpansWithinCursor ==
    [][\A i \in 1 .. Len(NewAnn) :
            /\ NewAnn[i].ss <= NewAnn[i].es
            /\ NewAnn[i].es <= samplenum']_vars

\* C21 as amended: every annotation starts at or before its end.  A Bit, byte
\* or Error annotation ends exactly at the current sample number.  A StopBit
\* starts where the wait of read_stop_bit began and ends the nominal width
\* later, whatever the low phase lasted: it ends at or before the rising edge
\* only if the low phase was at least as long as the nominal width, and
\* beyond it otherwise.
SpanWellFormed ==
    [][\A i \in 1 .. Len(NewAnn) :
            /\ NewAnn[i].ss <= NewAnn[i].es
            /\ NewAnn[i].kind # AnnStopBit => NewAnn[i].es = samplenum'
            /\ NewAnn[i].kind = AnnStopBit =>
                 LET nominal == IF loc.seg = "command" THEN bit_command_samples
                                                       ELSE bit_response_samples
                 IN  /\ pc = "stop_r"
                     /\ NewAnn[i].ss = samplenum
                     /\ NewAnn[i].es = samplenum + nominal
                     /\ NewAnn[i].ss < NewAnn[i].es
                     /\ NewAnn[i].es <= samplenum' <=> rem >= nominal]_vars

\* The response's stop bit was low for one sample: its annotation, four
\* samples wide, ends three samples after the rising edge the decoder is at.
SpanWellFormedWitness ==
    /\ cap.rate = Rate1
    /\ cap.var = "nominal"
    /\ cap.fpos = -1
    /\ pc = "idle_f"
    /\ run = GapRun(cap)
    /\ out_ann # << >>
    /\ out_ann[Len(out_ann)].kind = AnnStopBit
    /\ out_ann[Len(out_ann)].ss = samplenum - 1
    /\ out_ann[Len(out_ann)].es = samplenum + 3

====
